---- MODULE Spec2Model ----
(***************************************************************************)
(* sdhasher (src/main.go): the hashing pipeline of main().                 *)
(*                                                                         *)
(* One run: the prior cache is loaded, the worker goroutines and the       *)
(* result collector goroutine are started, the main flow iterates the      *)
(* prior cache (staleness detection), walks the directory (scan), closes   *)
(* the task channel, waits for the workers, closes the result channel,     *)
(* waits for the collector and encodes the cache.                          *)
(*                                                                         *)
(* Paths and cache keys are sequences of segments, a segment being a pair  *)
(* <<stem, extension>>; "checkpoint/a.ckpt" is <<Prefix, <<"a",".ckpt">>>>.*)
(* Times are counted in ticks, TicksPerSecond ticks to the second.         *)
(***************************************************************************)
EXTENDS Integers, Sequences, FiniteSets, TLC

\* ------------------------------------------------------------------ bounds
\* Resolution of the clock of the model (the source has nanoseconds).
TicksPerSecond == 2
\* Largest value of params.MaxHashers the model runs.
MaxPool == 2
\* Capacity of taskChan and of resultChan (100 in the source, scaled down so
\* that a full channel is reached).
QueueCap == 1
\* len(buf) of worker (16384 in the source, scaled down so that a file needs
\* several reads).
BufSize == 1

\* ------------------------------------------------------- program constants
\* "+ 1" of worker: the margin added to the modification time, in seconds.
Margin == 1
\* "time.Second*2" of the staleness comparison, in seconds.
Tolerance == 2

\* ------------------------------------------------------------ paths, keys
Prefix == <<"checkpoint", "">>
Root == <<"models", "">>
\* params.Path
Path == <<Root>>

FileA == <<Root, <<"a", ".ckpt">>>>
FileB == <<Root, <<"sub", "">>, <<"b", ".SAFETENSORS">>>>
FileC == <<Root, <<"c", ".txt">>>>
Files == {FileA, FileB, FileC}
\* filepath.WalkDir visits the entries in lexical order.
WalkOrder == <<FileA, FileC, FileB>>

\* strings.ToLower on the extensions of the model.
ToLower(s) ==
  CASE s = ".SAFETENSORS" -> ".safetensors"
    [] s = ".CKPT" -> ".ckpt"
    [] s = ".TXT" -> ".txt"
    [] OTHER -> s

\* filepath.Ext: the extension of the last segment.
Ext(path) == path[Len(path)][2]

\* Mutant of Recognized: no extension test.
RecognizedAny(path) == TRUE
\* The extension test of the WalkDir callback.
Recognized(path) ==
  LET ext == ToLower(Ext(path))
  IN  ~(ext # ".safetensors" /\ ext # ".ckpt")

\* strings.TrimPrefix(p, "checkpoint/")
TrimPrefix(p) == IF Len(p) > 0 /\ p[1] = Prefix THEN Tail(p) ELSE p

\* filepath.Join(params.Path, rel)
Join(base, rel) == base \o rel

\* filepath.Rel(params.Path, target), for a target below base (every path of
\* a task is, and Rel returns no error for those).
Rel(base, target) == SubSeq(target, Len(base) + 1, Len(target))

\* modelPath of the staleness loop.
ModelPath(p) == Join(Path, TrimPrefix(p))

\* Mutant of KeyOf: the namespace prefix left out.
KeyOfNoPrefix(path) == Rel(Path, path)
\* rel of the result collector: "checkpoint/" + rel.
KeyOf(path) == <<Prefix>> \o Rel(Path, path)

\* A key without the namespace prefix that resolves to FileA too.
AliasA == <<<<"a", ".ckpt">>>>

\* ------------------------------------------------------------------- maps
EmptyMap == [k \in {} |-> 0]
Put(m, k, v) == [x \in (DOMAIN m) \cup {k} |-> IF x = k THEN v ELSE m[x]]
\* Mutant of Del: nothing deleted.
DelNothing(m, k) == m
\* delete(result.Hashes, p)
Del(m, k) == [x \in (DOMAIN m) \ {k} |-> m[x]]

\* ------------------------------------------------------------------ times
\* float64(info.ModTime().UnixNano())/1e9 + 1, in ticks.
WithMargin(modTime) == modTime + Margin * TicksPerSecond

\* time.Unix(int64(e.MTime), 0): the stored time cut to whole seconds; the
\* conversion of a float64 to int64 drops the fraction, toward zero.
StoredTime(mtime) ==
  IF mtime >= 0
  THEN (mtime \div TicksPerSecond) * TicksPerSecond
  ELSE 0 - (((0 - mtime) \div TicksPerSecond) * TicksPerSecond)

\* Mutant of IsStale: the difference taken in both directions.
IsStaleAbs(modTime, mtime) ==
  \/ modTime - StoredTime(mtime) > Tolerance * TicksPerSecond
  \/ StoredTime(mtime) - modTime > Tolerance * TicksPerSecond
\* fi.ModTime().Sub(time.Unix(int64(e.MTime), 0)) > time.Second*2
IsStale(modTime, mtime) ==
  modTime - StoredTime(mtime) > Tolerance * TicksPerSecond

\* MTime.MarshalJSON, "%.7f": whole seconds and seven decimals, rounded.
MarshalJSON(mtime) ==
  LET frac == mtime % TicksPerSecond
      dec == (2 * frac * 10000000 + TicksPerSecond) \div (2 * TicksPerSecond)
  IN  <<mtime \div TicksPerSecond, dec>>

\* ------------------------------------------------------------- file system
\* kind: "absent"; "ok" regular and readable; "noopen" regular, os.Open
\* fails; "dangling" a symbolic link to nothing (listed, Lstat succeeds,
\* os.Stat and os.Open fail); "nosearch" a name in a directory that can be
\* read but not searched (listed, every stat fails).
\* fault: "none"; "eio0" the second Read fails: it returns (0, EIO), a failed
\* read of an *os.File returning no bytes.
StatOK(f) == f.kind \in {"ok", "noopen"}
Listed(f) == f.kind # "absent"
LstatOK(f) == f.kind \in {"ok", "noopen", "dangling"}
\* Mutant of OpenOK: os.Open succeeds on whatever the walk lists.
OpenAnything(f) == TRUE
OpenOK(f) == f.kind = "ok"

Min(a, b) == IF a < b THEN a ELSE b

\* The results of the successive f.Read(buf[:]) calls on a file: chunks of
\* at most BufSize bytes, then (0, EOF); a fault replaces the second call.
RECURSIVE Chunks(_)
Chunks(content) ==
  IF content = <<>> THEN <<[data |-> <<>>, err |-> "EOF"]>>
  ELSE LET n == Min(BufSize, Len(content))
       IN  <<[data |-> SubSeq(content, 1, n), err |-> "nil"]>>
           \o Chunks(SubSeq(content, n + 1, Len(content)))

Reads(f) ==
  LET good == Chunks(f.content)
  IN  CASE f.fault = "eio0" -> <<good[1], [data |-> <<>>, err |-> "EIO"]>>
        [] OTHER -> good

\* Mutant of ReadLoop: the bytes of the last read before the end are not
\* written to the digest.
RECURSIVE ReadLoopShort(_, _, _)
ReadLoopShort(reads, i, h) ==
  LET r == reads[i]
      n == Len(r.data)
  IN  IF n # 0 /\ r.err # "nil" THEN [err |-> TRUE, sum |-> <<>>]
      ELSE IF n > 0 /\ Len(reads[i + 1].data) > 0
           THEN ReadLoopShort(reads, i + 1, h \o r.data)
      ELSE [err |-> FALSE, sum |-> h]

\* The read loop of worker: h is the digest state (the bytes written to it).
RECURSIVE ReadLoop(_, _, _)
ReadLoop(reads, i, h) ==
  LET r == reads[i]
      n == Len(r.data)
  IN  IF n # 0 /\ r.err # "nil" THEN [err |-> TRUE, sum |-> <<>>]
      ELSE IF n > 0 THEN ReadLoop(reads, i + 1, h \o r.data)
      ELSE [err |-> FALSE, sum |-> h \o r.data]

\* ------------------------------------------------------------------ state
VARIABLES
  disk,         \* the file system: Files -> [kind, mtime, content, fault]
  input,        \* result.Hashes as decoded from the input cache
  maxHashers,   \* params.MaxHashers
  hashes,       \* result.Hashes
  mpc,          \* position of the main flow
  iter,         \* keys the range over result.Hashes has still to produce
  pending,      \* the task the staleness loop is sending (a sequence of 0 or 1)
  knownFiles,   \* knownFiles
  walk,         \* index in WalkOrder of the next entry WalkDir visits
  taskChan, taskClosed,
  resultChan, resultClosed,
  wpc, wres,    \* per worker goroutine: position, entry being sent
  cpc, centry,  \* result collector goroutine: position, entry being merged
  output,       \* the encoded cache: [written, hashes]
  emitted,      \* history: tasks sent per path, by the detector and by the scan
  deleted,      \* history: keys the staleness loop deleted
  merged,       \* history: keys the collector wrote
  nSent, nMerged, \* history: results sent by workers, merged by the collector
  raced,        \* history: a collector write happened during the staleness loop
  taken,        \* history: tasks received by workers, per path
  closes,       \* history: how often each channel was closed
  hashesAddnet, \* result.HashesAddnet
  inputAddnet,  \* result.HashesAddnet as decoded from the input cache
  run,          \* 1 in the first run, 2 in a run on the output of the first
  firstOutput,  \* history: the cache the first run encoded
  rscript, rpc, rres  \* the read loop on its own: reads, position, result

\* What no step of a run changes.
static == <<hashesAddnet, inputAddnet, run, firstOutput, rscript, rpc, rres>>

vars == <<disk, input, maxHashers, hashes, mpc, iter, pending, knownFiles, walk,
          taskChan, taskClosed, resultChan, resultClosed, wpc, wres, cpc,
          centry, output, emitted, deleted, merged, nSent, nMerged, raced,
          taken, closes, static>>

Workers == 1 .. maxHashers

\* -------------------------------------------------------------- the inputs
T0 == 10 * TicksPerSecond
OldTimes == {T0, T0 + 1}
Advances == {0 - (2 * TicksPerSecond + 1), 0 - 2 * TicksPerSecond, 0,
             2 * TicksPerSecond, 2 * TicksPerSecond + 1,
             3 * TicksPerSecond, 3 * TicksPerSecond + 1}
Later == T0 + 4 * TicksPerSecond
Earlier == T0 - 4 * TicksPerSecond

\* The key a cache file holds for a file: "checkpoint/" and the path below
\* the root.
NamespacedKey(f) == <<Prefix>> \o SubSeq(f, 2, Len(f))

OldDigest == <<0>>
ContentOf(path) ==
  CASE path = FileA -> <<1, 2, 3>>
    [] path = FileB -> <<4, 5>>
    [] OTHER -> <<6>>

Absent == [kind |-> "absent", mtime |-> 0, fault |-> "none"]
OnDisk(kind, mtime, fault) == [kind |-> kind, mtime |-> mtime, fault |-> fault]

\* An entry as decoded from the input cache (path is not part of the JSON).
\* The entry a previous run wrote for a file whose time was t0.
Prev(t0) == [mtime |-> WithMargin(t0), sha256 |-> OldDigest, path |-> <<>>]
None == <<>>

ScenariosA ==
  {[cache |-> None, disk |-> d] :
     d \in {Absent, OnDisk("ok", T0, "none"), OnDisk("noopen", T0, "none"),
            OnDisk("dangling", T0, "none"), OnDisk("nosearch", T0, "none"),
            OnDisk("ok", T0, "eio0")}}
  \cup {[cache |-> <<Prev(t0)>>, disk |-> OnDisk("ok", t0 + adv, "none")] :
          t0 \in OldTimes, adv \in Advances}
  \cup {[cache |-> <<Prev(T0)>>, disk |-> d] :
          d \in {Absent, OnDisk("dangling", Later, "none"),
                 OnDisk("nosearch", Later, "none"),
                 OnDisk("noopen", Later, "none"),
                 OnDisk("ok", Later, "eio0")}}

ScenariosB ==
  {[cache |-> None, disk |-> OnDisk("ok", T0, "none")],
   [cache |-> <<Prev(T0)>>, disk |-> OnDisk("ok", Later, "none")]}

ScenariosC ==
  {[cache |-> None, disk |-> OnDisk("ok", T0, "none")],
   [cache |-> <<Prev(T0)>>, disk |-> OnDisk("ok", Later, "none")]}

\* The input cache of a choice of scenarios; alias is the optional entry
\* under the key AliasA.
InputOf(a, b, c, alias) ==
  LET keys == {k \in {NamespacedKey(FileA), NamespacedKey(FileB), NamespacedKey(FileC), AliasA} :
                 \/ k = NamespacedKey(FileA) /\ a.cache # None
                 \/ k = NamespacedKey(FileB) /\ b.cache # None
                 \/ k = NamespacedKey(FileC) /\ c.cache # None
                 \/ k = AliasA /\ alias # None}
  IN  [k \in keys |->
         CASE k = NamespacedKey(FileA) -> a.cache[1]
           [] k = NamespacedKey(FileB) -> b.cache[1]
           [] k = NamespacedKey(FileC) -> c.cache[1]
           [] OTHER -> alias[1]]

DiskOf(a, b, c) ==
  [f \in Files |->
     LET d == CASE f = FileA -> a.disk [] f = FileB -> b.disk [] OTHER -> c.disk
     IN  [kind |-> d.kind, mtime |-> d.mtime, fault |-> d.fault,
          content |-> ContentOf(f)]]

NoTasks == [f \in Files |-> [det |-> 0, scan |-> 0]]
NoneTaken == [f \in Files |-> 0]
NoCloses == [task |-> 0, result |-> 0]
NoOutput ==
  [written |-> FALSE, hashes |-> EmptyMap,
   addnet |-> [present |-> FALSE, entries |-> EmptyMap]]

\* result.HashesAddnet after the decode: nil when the input has no
\* "hashes-addnet", else the decoded map, which may be empty.
NilAddnet == [nil |-> TRUE, entries |-> EmptyMap]
EmptyAddnet == [nil |-> FALSE, entries |-> EmptyMap]
AddnetKey == <<<<"addnet", "">>, <<"l", ".safetensors">>>>
OneAddnet == [nil |-> FALSE, entries |-> [k \in {AddnetKey} |-> Prev(T0 + 1)]]

\* The read loop is not run on its own during a run of the pipeline.
ReadLoopOff ==
  /\ rscript = <<>>
  /\ rpc = "off"
  /\ rres = [err |-> FALSE, sum |-> <<>>]

\* The state after the goroutines are started, the inputs drawn from the
\* given scenarios.
InitWith(SA, SB, SC, Aliases, Addnets) ==
  /\ \E a \in SA, b \in SB, c \in SC, alias \in Aliases :
       /\ disk = DiskOf(a, b, c)
       /\ input = InputOf(a, b, c, alias)
  /\ inputAddnet \in Addnets
  /\ hashesAddnet = inputAddnet
  /\ run = 1
  /\ firstOutput = NoOutput
  /\ taken = NoneTaken
  /\ closes = NoCloses
  /\ ReadLoopOff
  /\ maxHashers \in 1 .. MaxPool
  /\ hashes = input
  /\ mpc = "detect"
  /\ iter = DOMAIN input
  /\ pending = <<>>
  /\ knownFiles = {}
  /\ walk = 1
  /\ taskChan = <<>> /\ taskClosed = FALSE
  /\ resultChan = <<>> /\ resultClosed = FALSE
  /\ wpc = [w \in Workers |-> "recv"]
  /\ wres = [w \in Workers |-> <<>>]
  /\ cpc = "recv" /\ centry = <<>>
  /\ output = NoOutput
  /\ emitted = NoTasks
  /\ deleted = {} /\ merged = {}
  /\ nSent = 0 /\ nMerged = 0
  /\ raced = FALSE

Init ==
  InitWith(ScenariosA, ScenariosB, ScenariosC, {None, <<Prev(Earlier)>>},
           {OneAddnet})

\* The inputs of the runs checked for progress: every file stale, new or
\* gone, so that tasks outnumber the capacity of the channels.
LiveA ==
  {[cache |-> <<Prev(T0)>>, disk |-> OnDisk("ok", Later, "none")],
   [cache |-> <<Prev(T0)>>, disk |-> Absent],
   [cache |-> None, disk |-> OnDisk("ok", T0, "none")]}
LiveB ==
  {[cache |-> <<Prev(T0)>>, disk |-> OnDisk("ok", Later, "none")],
   [cache |-> <<Prev(T0)>>, disk |-> OnDisk("ok", Later, "eio0")],
   [cache |-> None, disk |-> OnDisk("ok", T0, "none")]}
LiveC == {[cache |-> <<Prev(T0)>>, disk |-> OnDisk("ok", Later, "none")]}

LiveInit ==
  InitWith(LiveA, LiveB, LiveC, {None, <<Prev(Earlier)>>}, {OneAddnet})

\* ---------------------------------------------------------------- worker
\* A task: path and d; of d the model keeps whether d.Info() succeeds and the
\* modification time it reports.
Task(path, infoOK, modTime) ==
  [path |-> path, infoOK |-> infoOK, modTime |-> modTime]

Failed == [err |-> TRUE, entry |-> <<>>]

\* func worker(t task) (*entry, error)
worker(t) ==
  IF ~t.infoOK THEN Failed
  ELSE IF ~OpenOK(disk[t.path]) THEN Failed
  ELSE LET r == ReadLoop(Reads(disk[t.path]), 1, <<>>)
       IN  IF r.err THEN Failed
           ELSE [err |-> FALSE,
                 entry |-> [mtime |-> WithMargin(t.modTime), sha256 |-> r.sum,
                            path |-> t.path]]

\* ------------------------------------------------------------ the main flow
Running == mpc \notin {"crashed", "done"}
Detecting == mpc \in {"detect", "detsend"}

Count(path, by) ==
  [emitted EXCEPT ![path] =
     IF by = "det" THEN [@ EXCEPT !.det = @ + 1] ELSE [@ EXCEPT !.scan = @ + 1]]

\* One iteration of "for p, e := range result.Hashes", up to the send.
DetectVisit ==
  /\ mpc = "detect"
  /\ \E p \in iter :
       LET e == hashes[p]
           modelPath == ModelPath(p)
           fi == disk[modelPath]
       IN  /\ iter' = iter \ {p}
           /\ IF ~StatOK(fi)
              THEN /\ hashes' = Del(hashes, p)
                   /\ deleted' = deleted \cup {p}
                   /\ UNCHANGED <<mpc, pending, knownFiles>>
              ELSE /\ UNCHANGED <<hashes, deleted>>
                   /\ IF IsStale(fi.mtime, e.mtime)
                      THEN /\ pending' = <<Task(modelPath, TRUE, fi.mtime)>>
                           /\ mpc' = "detsend"
                           /\ UNCHANGED knownFiles
                      ELSE /\ knownFiles' = knownFiles \cup {modelPath}
                           /\ UNCHANGED <<mpc, pending>>
  /\ UNCHANGED <<static, taken, closes, disk, input, maxHashers, walk, taskChan, taskClosed,
                 resultChan, resultClosed, wpc, wres, cpc, centry, output,
                 emitted, merged, nSent, nMerged, raced>>

\* Mutant of DetectSend: the send does not wait for room in taskChan.
DetectSendNoWait ==
  /\ mpc = "detsend"
  /\ taskChan' = Append(taskChan, pending[1])
  /\ emitted' = Count(pending[1].path, "det")
  /\ knownFiles' = knownFiles \cup {pending[1].path}
  /\ pending' = <<>>
  /\ mpc' = "detect"
  /\ UNCHANGED <<static, taken, closes, disk, input, maxHashers, hashes, iter, walk, taskClosed,
                 resultChan, resultClosed, wpc, wres, cpc, centry, output,
                 deleted, merged, nSent, nMerged, raced>>
\* "taskChan <- &task{...}" of the staleness loop, then knownFiles[modelPath].
DetectSend ==
  /\ mpc = "detsend"
  /\ Len(taskChan) < QueueCap
  /\ taskChan' = Append(taskChan, pending[1])
  /\ emitted' = Count(pending[1].path, "det")
  /\ knownFiles' = knownFiles \cup {pending[1].path}
  /\ pending' = <<>>
  /\ mpc' = "detect"
  /\ UNCHANGED <<static, taken, closes, disk, input, maxHashers, hashes, iter, walk, taskClosed,
                 resultChan, resultClosed, wpc, wres, cpc, centry, output,
                 deleted, merged, nSent, nMerged, raced>>

\* The range loop ends.
DetectEnd ==
  /\ mpc = "detect"
  /\ iter = {}
  /\ mpc' = "scan"
  /\ UNCHANGED <<static, taken, closes, disk, input, maxHashers, hashes, iter, pending, knownFiles,
                 walk, taskChan, taskClosed, resultChan, resultClosed, wpc,
                 wres, cpc, centry, output, emitted, deleted, merged, nSent,
                 nMerged, raced>>

\* Mutant of ScanVisit: the callback does not look the path up in knownFiles.
ScanVisitUnknown ==
  /\ mpc = "scan"
  /\ walk <= Len(WalkOrder)
  /\ LET path == WalkOrder[walk]
         f == disk[path]
         emit == Listed(f) /\ Recognized(path)
     IN  /\ emit => Len(taskChan) < QueueCap
         /\ IF emit
            THEN /\ taskChan' = Append(taskChan, Task(path, LstatOK(f), f.mtime))
                 /\ emitted' = Count(path, "scan")
            ELSE UNCHANGED <<taskChan, emitted>>
  /\ walk' = walk + 1
  /\ UNCHANGED <<static, taken, closes, disk, input, maxHashers, hashes, mpc, iter, pending,
                 knownFiles, taskClosed, resultChan, resultClosed, wpc, wres,
                 cpc, centry, output, deleted, merged, nSent, nMerged, raced>>
\* The WalkDir callback on the next entry (names that are not on disk are
\* not visited).
ScanVisit ==
  /\ mpc = "scan"
  /\ walk <= Len(WalkOrder)
  /\ LET path == WalkOrder[walk]
         f == disk[path]
         emit == Listed(f) /\ Recognized(path) /\ path \notin knownFiles
     IN  /\ emit => Len(taskChan) < QueueCap
         /\ IF emit
            THEN /\ taskChan' = Append(taskChan, Task(path, LstatOK(f), f.mtime))
                 /\ emitted' = Count(path, "scan")
            ELSE UNCHANGED <<taskChan, emitted>>
  /\ walk' = walk + 1
  /\ UNCHANGED <<static, taken, closes, disk, input, maxHashers, hashes, mpc, iter, pending,
                 knownFiles, taskClosed, resultChan, resultClosed, wpc, wres,
                 cpc, centry, output, deleted, merged, nSent, nMerged, raced>>

\* WalkDir returns; close(taskChan).
CloseTasks ==
  /\ mpc = "scan"
  /\ walk > Len(WalkOrder)
  /\ taskClosed' = TRUE
  /\ closes' = [closes EXCEPT !.task = @ + 1]
  /\ mpc' = "wait"
  /\ UNCHANGED <<static, taken, disk, input, maxHashers, hashes, iter, pending, knownFiles,
                 walk, taskChan, resultChan, resultClosed, wpc, wres, cpc,
                 centry, output, emitted, deleted, merged, nSent, nMerged,
                 raced>>

\* Mutant of CloseResults: close(resultChan) without wg.Wait().
CloseResultsNoWait ==
  /\ mpc = "wait"
  /\ resultClosed' = TRUE
  /\ closes' = [closes EXCEPT !.result = @ + 1]
  /\ mpc' = "waitres"
  /\ UNCHANGED <<static, taken, disk, input, maxHashers, hashes, iter, pending, knownFiles,
                 walk, taskChan, taskClosed, resultChan, wpc, wres, cpc,
                 centry, output, emitted, deleted, merged, nSent, nMerged,
                 raced>>

\* wg.Wait() returns; close(resultChan).
CloseResults ==
  /\ mpc = "wait"
  /\ \A w \in Workers : wpc[w] = "exit"
  /\ resultClosed' = TRUE
  /\ closes' = [closes EXCEPT !.result = @ + 1]
  /\ mpc' = "waitres"
  /\ UNCHANGED <<static, taken, disk, input, maxHashers, hashes, iter, pending, knownFiles,
                 walk, taskChan, taskClosed, resultChan, wpc, wres, cpc,
                 centry, output, emitted, deleted, merged, nSent, nMerged,
                 raced>>

\* json encoding of an entry: mtime through MarshalJSON, path not encoded.
EncodeEntry(e) == [mtime |-> MarshalJSON(e.mtime), sha256 |-> e.sha256]

\* json encoding of result.Hashes.
EncodeCache(h) == [k \in DOMAIN h |-> EncodeEntry(h[k])]

\* Mutant of EncodeAddnet: "hashes-addnet" without omitempty.
EncodeAddnetAlways(a) == [present |-> TRUE, entries |-> EncodeCache(a.entries)]
\* json encoding of result.HashesAddnet, `json:"hashes-addnet,omitempty"`: a
\* nil or empty map is left out.
EncodeAddnet(a) ==
  IF a.nil \/ DOMAIN a.entries = {}
  THEN [present |-> FALSE, entries |-> EmptyMap]
  ELSE [present |-> TRUE, entries |-> EncodeCache(a.entries)]

\* enc.Encode(result)
EncodeResult(h, a) ==
  [written |-> TRUE, hashes |-> EncodeCache(h), addnet |-> EncodeAddnet(a)]

\* Mutant of Encode: enc.Encode(result) without wgResult.Wait().
EncodeNoWait ==
  /\ mpc = "waitres"
  /\ output' = EncodeResult(hashes, hashesAddnet)
  /\ mpc' = "done"
  /\ UNCHANGED <<static, taken, closes, disk, input, maxHashers, hashes, iter, pending, knownFiles,
                 walk, taskChan, taskClosed, resultChan, resultClosed, wpc,
                 wres, cpc, centry, emitted, deleted, merged, nSent, nMerged,
                 raced>>

\* wgResult.Wait() returns; enc.Encode(result).
Encode ==
  /\ mpc = "waitres"
  /\ cpc = "exit"
  /\ output' = EncodeResult(hashes, hashesAddnet)
  /\ mpc' = "done"
  /\ UNCHANGED <<static, taken, closes, disk, input, maxHashers, hashes, iter, pending, knownFiles,
                 walk, taskChan, taskClosed, resultChan, resultClosed, wpc,
                 wres, cpc, centry, emitted, deleted, merged, nSent, nMerged,
                 raced>>

\* ------------------------------------------------------ worker goroutines
\* "for t := range taskChan { e, err := worker(*t)"
WorkerRecv(w) ==
  /\ Running
  /\ wpc[w] = "recv"
  /\ taskChan # <<>>
  /\ taskChan' = Tail(taskChan)
  /\ taken' = [taken EXCEPT ![Head(taskChan).path] = @ + 1]
  /\ LET r == worker(Head(taskChan))
     IN  IF r.err
         THEN UNCHANGED <<wpc, wres>>
         ELSE /\ wpc' = [wpc EXCEPT ![w] = "send"]
              /\ wres' = [wres EXCEPT ![w] = <<r.entry>>]
  /\ UNCHANGED <<static, closes, disk, input, maxHashers, hashes, mpc, iter, pending,
                 knownFiles, walk, taskClosed, resultChan, resultClosed, cpc,
                 centry, output, emitted, deleted, merged, nSent, nMerged,
                 raced>>

\* "resultChan <- e"
WorkerSend(w) ==
  /\ Running
  /\ wpc[w] = "send"
  /\ Len(resultChan) < QueueCap
  /\ resultChan' = Append(resultChan, wres[w][1])
  /\ nSent' = nSent + 1
  /\ wpc' = [wpc EXCEPT ![w] = "recv"]
  /\ wres' = [wres EXCEPT ![w] = <<>>]
  /\ UNCHANGED <<static, taken, closes, disk, input, maxHashers, hashes, mpc, iter, pending,
                 knownFiles, walk, taskChan, taskClosed, resultClosed, cpc,
                 centry, output, emitted, deleted, merged, nMerged, raced>>

\* The range over taskChan ends: the channel is closed and empty; wg.Done().
WorkerExit(w) ==
  /\ Running
  /\ wpc[w] = "recv"
  /\ taskChan = <<>>
  /\ taskClosed
  /\ wpc' = [wpc EXCEPT ![w] = "exit"]
  /\ UNCHANGED <<static, taken, closes, disk, input, maxHashers, hashes, mpc, iter, pending,
                 knownFiles, walk, taskChan, taskClosed, resultChan,
                 resultClosed, wres, cpc, centry, output, emitted, deleted,
                 merged, nSent, nMerged, raced>>

\* ------------------------------------------------------- result collector
\* "for e := range resultChan"
CollectorRecv ==
  /\ Running
  /\ cpc = "recv"
  /\ resultChan # <<>>
  /\ centry' = <<Head(resultChan)>>
  /\ resultChan' = Tail(resultChan)
  /\ cpc' = "merge"
  /\ UNCHANGED <<static, taken, closes, disk, input, maxHashers, hashes, mpc, iter, pending,
                 knownFiles, walk, taskChan, taskClosed, resultClosed, wpc,
                 wres, output, emitted, deleted, merged, nSent, nMerged,
                 raced>>

\* "result.Hashes[rel] = *e".  A write that lands while the main flow is
\* still ranging over the map is unsynchronized with it: a key it inserts is
\* produced by the range or skipped.
CollectorMerge ==
  /\ Running
  /\ cpc = "merge"
  /\ LET e == centry[1]
         rel == KeyOf(e.path)
     IN  /\ hashes' = Put(hashes, rel, e)
         /\ merged' = merged \cup {rel}
         /\ IF Detecting /\ rel \notin DOMAIN hashes
            THEN iter' \in {iter, iter \cup {rel}}
            ELSE UNCHANGED iter
  /\ raced' = (raced \/ Detecting)
  /\ nMerged' = nMerged + 1
  /\ centry' = <<>>
  /\ cpc' = "recv"
  /\ UNCHANGED <<static, taken, closes, disk, input, maxHashers, mpc, pending, knownFiles, walk,
                 taskChan, taskClosed, resultChan, resultClosed, wpc, wres,
                 output, emitted, deleted, nSent>>

\* The range over resultChan ends; wgResult.Done().
CollectorExit ==
  /\ Running
  /\ cpc = "recv"
  /\ resultChan = <<>>
  /\ resultClosed
  /\ cpc' = "exit"
  /\ UNCHANGED <<static, taken, closes, disk, input, maxHashers, hashes, mpc, iter, pending,
                 knownFiles, walk, taskChan, taskClosed, resultChan,
                 resultClosed, wpc, wres, centry, output, emitted, deleted,
                 merged, nSent, nMerged, raced>>

\* The other outcome of a collector write that is concurrent with the range
\* or the delete of the main flow: the Go runtime detects it ("concurrent map
\* iteration and map write", "concurrent map writes") and ends the process.
RaceAbort ==
  /\ cpc = "merge"
  /\ Detecting
  /\ mpc' = "crashed"
  /\ raced' = TRUE
  /\ UNCHANGED <<static, taken, closes, disk, input, maxHashers, hashes, iter, pending, knownFiles,
                 walk, taskChan, taskClosed, resultChan, resultClosed, wpc,
                 wres, cpc, centry, output, emitted, deleted, merged, nSent,
                 nMerged>>

MainStep ==
  \/ DetectVisit
  \/ DetectSend
  \/ DetectEnd
  \/ ScanVisit
  \/ CloseTasks
  \/ CloseResults
  \/ Encode

WorkerStep(w) == WorkerRecv(w) \/ WorkerSend(w) \/ WorkerExit(w)

CollectorStep == CollectorRecv \/ CollectorMerge \/ CollectorExit

Next ==
  \/ DetectVisit
  \/ DetectSend
  \/ DetectEnd
  \/ ScanVisit
  \/ CloseTasks
  \/ CloseResults
  \/ Encode
  \/ \E w \in Workers : WorkerRecv(w)
  \/ \E w \in Workers : WorkerSend(w)
  \/ \E w \in Workers : WorkerExit(w)
  \/ CollectorRecv
  \/ CollectorMerge
  \/ CollectorExit
  \/ RaceAbort

Spec == Init /\ [][Next]_vars

\* The Go scheduler runs every goroutine that can take a step.
FairSpec ==
  /\ LiveInit /\ [][Next]_vars
  /\ WF_vars(MainStep)
  /\ \A w \in 1 .. MaxPool : WF_vars(w \in Workers /\ WorkerStep(w))
  /\ WF_vars(CollectorStep)

\* ------------------------------------------------------ terms of the claims
Done == mpc = "done"
PastDetection == mpc \in {"scan", "wait", "waitres", "done"}
PastScan == mpc \in {"wait", "waitres", "done"}

\* The keys of the input cache that resolve to a file.
KeysFor(f) == {k \in DOMAIN input : ModelPath(k) = f}
\* A key as a run writes it: "checkpoint/" + the root-relative path.
Canonical(k) == k = KeyOf(ModelPath(k))
\* The on-disk time the file had when the entry under k was written.
OldTime(k) == input[k].mtime - Margin * TicksPerSecond
\* By how much the on-disk time has moved since.
Advance(k) == disk[ModelPath(k)].mtime - OldTime(k)
Abs(x) == IF x < 0 THEN 0 - x ELSE x

\* Every read of the file succeeds up to the end of the file.
HashSucceeds(f) == disk[f].kind = "ok" /\ disk[f].fault = "none"
\* The encoded entry of a fresh hash of the file: the digest of its whole
\* content, the on-disk time plus the margin.
FreshEncoded(f) ==
  [mtime |-> MarshalJSON(disk[f].mtime + Margin * TicksPerSecond),
   sha256 |-> disk[f].content]
NoTask(f) == emitted[f].det = 0 /\ emitted[f].scan = 0
\* The allow-list of extensions, compared case-insensitively.
AllowList == {".safetensors", ".ckpt"}
Allowed(f) == ToLower(f[Len(f)][2]) \in AllowList

\* ---------------------------------------------------------------------- C1
\* C1 (as claimed): no write of the result collector to result.Hashes
\* happens while the staleness loop is still ranging over result.Hashes.
C1_SingleWriter == ~raced

\* ---------------------------------------------------------------------- C2
\* C2 (as claimed): for an entry a previous run wrote, whose file is on disk
\* with a time advanced by more than the 2 s tolerance, the staleness loop has
\* sent a task once it ends, and the encoded cache holds the fresh entry when
\* hashing succeeds.
C2_TriggerAboveTolerance ==
  \A k \in DOMAIN input :
    (/\ Canonical(k)
     /\ StatOK(disk[ModelPath(k)])
     /\ Advance(k) > Tolerance * TicksPerSecond)
    => /\ PastDetection => emitted[ModelPath(k)].det >= 1
       /\ (Done /\ HashSucceeds(ModelPath(k)))
            => output.hashes[k] = FreshEncoded(ModelPath(k))

\* ---------------------------------------------------------------------- C3
\* C3 (as claimed): for an entry a previous run wrote, whose file is on disk
\* with a time that moved by at most 2 s, either way, from what the entry
\* recorded, no task is sent for the file, and the entry stays in
\* result.Hashes, and is encoded, as it was decoded.
C3_EntryKeptWithinTolerance ==
  \A k \in DOMAIN input :
    (/\ Canonical(k)
     /\ StatOK(disk[ModelPath(k)])
     /\ Abs(Advance(k)) <= Tolerance * TicksPerSecond)
    => /\ NoTask(ModelPath(k))
       /\ k \in DOMAIN hashes /\ hashes[k] = input[k]
       /\ Done => /\ k \in DOMAIN output.hashes
                  /\ output.hashes[k] = EncodeEntry(input[k])

\* C3 (amended): a file that is on disk and whose time moved by at most 2 s,
\* either way, from what each of the input entries that resolve to it
\* recorded gets no task, and these entries stay in result.Hashes, and are
\* encoded, as they were decoded.
C3_NoRehashWithinTolerance ==
  \A f \in Files :
    (/\ KeysFor(f) # {}
     /\ StatOK(disk[f])
     /\ \A k \in KeysFor(f) : Abs(Advance(k)) <= Tolerance * TicksPerSecond)
    => /\ NoTask(f)
       /\ \A k \in KeysFor(f) :
            /\ k \in DOMAIN hashes /\ hashes[k] = input[k]
            /\ Done => /\ k \in DOMAIN output.hashes
                       /\ output.hashes[k] = EncodeEntry(input[k])

\* A run that ended, FileA exactly 2 s later than recorded and kept, while
\* another file was rehashed and merged.
C3_Witness ==
  /\ Done
  /\ KeysFor(FileA) = {KeyOf(FileA)}
  /\ StatOK(disk[FileA])
  /\ Advance(KeyOf(FileA)) = Tolerance * TicksPerSecond
  /\ output.hashes[KeyOf(FileA)] = EncodeEntry(input[KeyOf(FileA)])
  /\ merged # {}

\* ---------------------------------------------------------------------- C4
\* C4: a key of the input cache whose file is not on disk gets no task, is
\* out of result.Hashes from the end of the staleness loop on, is never
\* written by the collector, and is not in the encoded cache.
C4_MissingFileDeleted ==
  \A k \in DOMAIN input :
    disk[ModelPath(k)].kind = "absent"
    => /\ NoTask(ModelPath(k))
       /\ k \notin iter => (k \in deleted /\ k \notin DOMAIN hashes)
       /\ PastDetection => k \notin DOMAIN hashes
       /\ k \notin merged
       /\ Done => k \notin DOMAIN output.hashes

\* A run that ended without the key of the missing FileA, another file having
\* been merged.
C4_Witness ==
  /\ Done
  /\ KeyOf(FileA) \in DOMAIN input
  /\ disk[FileA].kind = "absent"
  /\ KeyOf(FileA) \in deleted
  /\ KeyOf(FileA) \notin DOMAIN output.hashes
  /\ merged # {}

\* ---------------------------------------------------------------------- C5
\* C5 (as claimed): no key of the encoded cache resolves to a file whose
\* extension is not recognized, whatever the input cache holds.
C5_NoUnrecognizedKey ==
  Done => \A k \in DOMAIN output.hashes : Allowed(ModelPath(k))

\* C5 (amended): a file whose extension is not recognized and to which no key
\* of the input cache resolves gets no task and no key of the encoded cache.
C5_NoUnrecognizedKeyUnlessCached ==
  \A f \in Files :
    (~Allowed(f) /\ KeysFor(f) = {})
    => /\ NoTask(f)
       /\ \A k \in DOMAIN hashes : ModelPath(k) # f
       /\ Done => \A k \in DOMAIN output.hashes : ModelPath(k) # f

\* A run that ended, FileC on disk and not cached, the scan having gone past
\* it and other files having been merged.
C5_Witness ==
  /\ Done
  /\ Listed(disk[FileC])
  /\ KeysFor(FileC) = {}
  /\ \A k \in DOMAIN output.hashes : ModelPath(k) # FileC
  /\ merged # {}

\* ---------------------------------------------------------------------- C6
\* C6: a regular file with a recognized extension to which no key of the
\* input cache resolves gets no task from the staleness loop and exactly one
\* from the scan, and when its hashing succeeds the encoded cache holds it
\* under "checkpoint/" + relative path, digest of the whole content, on-disk
\* time plus margin.
C6_NewFileDiscovered ==
  \A f \in Files :
    (Allowed(f) /\ StatOK(disk[f]) /\ KeysFor(f) = {})
    => /\ emitted[f].det = 0
       /\ emitted[f].scan <= 1
       /\ PastScan => emitted[f].scan = 1
       /\ (Done /\ HashSucceeds(f))
            => /\ NamespacedKey(f) \in DOMAIN output.hashes
               /\ output.hashes[NamespacedKey(f)] = FreshEncoded(f)

\* A run that ended with the entry of the new file FileB, in a subdirectory.
C6_Witness ==
  /\ Done
  /\ KeysFor(FileB) = {}
  /\ HashSucceeds(FileB)
  /\ emitted[FileB].scan = 1
  /\ output.hashes[NamespacedKey(FileB)] = FreshEncoded(FileB)

\* ---------------------------------------------------------------------- C7
\* C7: when the cache is encoded every result a worker sent has been merged,
\* both channels are closed and empty and every worker and the collector
\* have ended; the result channel is closed only after the task channel is
\* closed and every worker has ended, and the collector ends only after the
\* result channel is closed.
C7_MergeBarrier ==
  /\ ((mpc = "waitres" /\ cpc = "exit") \/ Done)
       => /\ nMerged = nSent
          /\ taskClosed /\ taskChan = <<>>
          /\ resultClosed /\ resultChan = <<>>
          /\ \A w \in Workers : wpc[w] = "exit" /\ wres[w] = <<>>
          /\ cpc = "exit" /\ centry = <<>>
  /\ resultClosed => (taskClosed /\ \A w \in Workers : wpc[w] = "exit")
  /\ cpc = "exit" => resultClosed
  /\ output.written => Done

\* A run that encoded the cache after two results were sent and merged.
C7_Witness == Done /\ output.written /\ nSent >= 2 /\ nMerged = nSent

\* ---------------------------------------------------------------------- C8
\* C8 (as claimed): under fair scheduling the run reaches serialization.
C8_ReachesSerialization == <>Done

\* What holds instead: the run reaches serialization unless the runtime ends
\* the process on the concurrent map access of C1.
TerminatesOrAborts == <>(mpc \in {"done", "crashed"})

\* ---------------------------------------------------------------------- C9
\* Hashing the file fails at some step: Info, Open or a Read.
HashFails(f) ==
  Listed(disk[f]) /\ (~LstatOK(disk[f]) \/ ~OpenOK(disk[f]) \/ disk[f].fault # "none")

\* C9 (as claimed): for a file whose hashing fails no result is sent or
\* merged, and the encoded cache holds under its key what result.Hashes held
\* after the staleness loop: the input entry if the file could be stat-ed,
\* nothing otherwise.
C9_FailureContained ==
  \A f \in Files :
    HashFails(f)
    => /\ NamespacedKey(f) \notin merged
       /\ \A w \in Workers : wres[w] = <<>> \/ wres[w][1].path # f
       /\ Done =>
            IF NamespacedKey(f) \in DOMAIN input /\ StatOK(disk[f])
            THEN /\ NamespacedKey(f) \in DOMAIN output.hashes
                 /\ output.hashes[NamespacedKey(f)]
                      = EncodeEntry(input[NamespacedKey(f)])
            ELSE NamespacedKey(f) \notin DOMAIN output.hashes

\* --------------------------------------------------------------------- C10
\* The encoded cache as a function of the input cache and the file system.
KnownAfterDetection ==
  {ModelPath(k) : k \in {x \in DOMAIN input : StatOK(disk[ModelPath(x)])}}
QueuedInRun(f) ==
  \/ StatOK(disk[f])
       /\ \E k \in KeysFor(f) : IsStale(disk[f].mtime, input[k].mtime)
  \/ Listed(disk[f]) /\ Recognized(f) /\ f \notin KnownAfterDetection
ResultOf(f) == worker(Task(f, LstatOK(disk[f]), disk[f].mtime))
Rehashed == {f \in Files : QueuedInRun(f) /\ ~ResultOf(f).err}
ExpectedOutput ==
  LET kept == {k \in DOMAIN input : StatOK(disk[ModelPath(k)])}
      fresh == {NamespacedKey(f) : f \in Rehashed}
  IN  [k \in kept \cup fresh |->
         IF k \in fresh
         THEN EncodeEntry(ResultOf(CHOOSE f \in Rehashed : NamespacedKey(f) = k).entry)
         ELSE EncodeEntry(input[k])]

\* C10: whatever the interleaving, the pool size and the order of the range
\* over the prior cache, the encoded cache is the one function of the input
\* cache and the file system.
C10_Deterministic == Done => (output.written /\ output.hashes = ExpectedOutput)

\* A run that ended after collector writes landed during the staleness loop
\* and at least two results were merged.
C10_Witness == Done /\ raced /\ nMerged >= 2

\* --------------------------------------------------------------------- C15
\* C15 (as claimed): once the staleness loop has ended, a file that is on
\* disk and has an entry a previous run wrote has been sent by the loop if
\* and only if its on-disk time differs from the recorded time (stored time
\* minus the margin) by more than 2 s, in either direction.
C15_AbsoluteDifference ==
  \A k \in DOMAIN input :
    (/\ PastDetection
     /\ KeysFor(ModelPath(k)) = {k}
     /\ StatOK(disk[ModelPath(k)]))
    => (emitted[ModelPath(k)].det >= 1
          <=> Abs(Advance(k)) > Tolerance * TicksPerSecond)

\* --------------------------------------------------------------------- C16
\* C16 (as claimed): once the staleness loop has ended, the path of every
\* key of the input cache is in knownFiles, whether the key was kept or
\* deleted, and the scan sends no task for such a path.
C16_KnownCoversRemoved ==
  PastDetection
  => \A k \in DOMAIN input :
       /\ ModelPath(k) \in knownFiles
       /\ emitted[ModelPath(k)].scan = 0

\* --------------------------------------------------------------------- C17
\* The tasks sent for a file so far, those of them still in taskChan, and
\* whether every worker has returned.
Sent(f) == emitted[f].det + emitted[f].scan
Queued(f) == Cardinality({i \in 1 .. Len(taskChan) : taskChan[i].path = f})
WorkersGone == \A w \in Workers : wpc[w] = "exit"
\* Each task sent for the file was received once or is still in taskChan, and
\* none is left when the workers have returned.
TakenOnce(f) ==
  /\ taken[f] + Queued(f) = Sent(f)
  /\ WorkersGone => taken[f] = Sent(f)

\* C17 (as claimed): in a run at most one task is sent for a file, by the
\* staleness loop or by the scan, and each task sent is received by exactly
\* one worker.
C17_OneTaskPerPath ==
  \A f \in Files : Sent(f) <= 1 /\ TakenOnce(f)

\* C17 (amended): the same for every file that at most one key of the input
\* cache resolves to; whatever the keys, each task sent is received by
\* exactly one worker.
C17_OneTaskPerSingleKeyPath ==
  \A f \in Files :
    /\ Cardinality(KeysFor(f)) <= 1 => Sent(f) <= 1
    /\ TakenOnce(f)

\* A run that ended: FileA, stale under its one key, was sent by the
\* staleness loop, received once and merged, and the scan, which sent FileB,
\* did not send FileA again.
C17_Witness ==
  /\ Done
  /\ KeysFor(FileA) = {NamespacedKey(FileA)}
  /\ emitted[FileA] = [det |-> 1, scan |-> 0]
  /\ taken[FileA] = 1
  /\ NamespacedKey(FileA) \in merged
  /\ emitted[FileB].scan = 1
  /\ taken[FileB] = 1

\* --------------------------------------------------------------------- C18
\* C18: no step leaves a key both deleted by the staleness loop and written
\* by the collector, and no step of the staleness loop deletes a key for
\* whose file a task was sent before.
C18_NoDeleteWriteConflict ==
  [][/\ deleted' \cap merged' = {}
     /\ \A k \in deleted' \ deleted : Sent(ModelPath(k)) = 0]_vars

\* A run that ended after the staleness loop deleted a key while the
\* collector was writing others, and the scan sent a task, which failed, for
\* the path of the deleted key.
C18_Witness ==
  /\ Done
  /\ raced
  /\ \E k \in deleted : emitted[ModelPath(k)].scan = 1 /\ k \notin DOMAIN output.hashes
  /\ merged # {}

\* --------------------------------------------------------------------- C19
\* Neither channel holds more than its capacity, and what was sent is in a
\* channel, with its receiver, or was received: nothing is lost.
WithinCapacity ==
  /\ Len(taskChan) <= QueueCap
  /\ Len(resultChan) <= QueueCap
  /\ \A f \in Files : taken[f] + Queued(f) = Sent(f)
  /\ nSent = Len(resultChan) + Len(centry) + nMerged
\* A step of a sender: it happens only when the channel has room, and it
\* appends what the sender held.
SendsWhenRoom ==
  /\ (mpc = "detsend" /\ mpc' = "detect")
       => /\ Len(taskChan) < QueueCap
          /\ taskChan' = Append(taskChan, pending[1])
  /\ (mpc = "scan" /\ walk' # walk /\ disk[WalkOrder[walk]].kind # "absent"
        /\ Allowed(WalkOrder[walk]) /\ WalkOrder[walk] \notin knownFiles)
       => /\ Len(taskChan) < QueueCap
          /\ Len(taskChan') = Len(taskChan) + 1
          /\ taskChan'[Len(taskChan')].path = WalkOrder[walk]
  /\ \A w \in Workers :
       (wpc[w] = "send" /\ wpc'[w] # "send")
       => /\ Len(resultChan) < QueueCap
          /\ resultChan' = Append(resultChan, wres[w][1])
\* With a full channel nothing is sent and the sender stays where it is.
WaitsWhenFull ==
  /\ Len(taskChan) = QueueCap
       => /\ emitted' = emitted
          /\ mpc = "detsend" => (mpc' \in {"detsend", "crashed"} /\ pending' = pending)
          /\ mpc = "scan" => (walk' = walk \/ Len(taskChan') = Len(taskChan))
  /\ Len(resultChan) = QueueCap
       => /\ nSent' = nSent
          /\ \A w \in Workers :
               wpc[w] = "send" => (wpc'[w] = "send" /\ wres'[w] = wres[w])

\* C19: the task channel and the result channel never hold more than their
\* capacity; a sender facing a full channel takes no step until a receiver
\* has taken an element; every task and every result sent is received.
C19_Backpressure ==
  /\ []WithinCapacity
  /\ [][SendsWhenRoom /\ WaitsWhenFull]_vars

\* Both channels are full, the main flow holds a task it cannot send and a
\* worker holds a result it cannot send.
C19_Witness ==
  /\ Len(taskChan) = QueueCap
  /\ mpc = "detsend"
  /\ Len(resultChan) = QueueCap
  /\ \E w \in Workers : wpc[w] = "send"

\* --------------------------------------------------------------------- C20
\* No step sends on a closed channel; a channel, once closed, stays closed
\* and is closed by one close only; resultChan is closed only when every
\* worker has returned.
ClosedIsFinal ==
  /\ taskClosed
       => /\ taskClosed'
          /\ emitted' = emitted
          /\ Len(taskChan') <= Len(taskChan)
  /\ resultClosed
       => /\ resultClosed'
          /\ nSent' = nSent
          /\ Len(resultChan') <= Len(resultChan)
  /\ (resultClosed' /\ ~resultClosed) => (taskClosed /\ WorkersGone)
  /\ closes'.task = (IF taskClosed' THEN 1 ELSE 0)
  /\ closes'.result = (IF resultClosed' THEN 1 ELSE 0)

\* C20: the main flow sends no task after close(taskChan), no worker sends a
\* result after close(resultChan), which happens only after every worker has
\* returned, and by the end of the run each channel was closed exactly once.
C20_NoSendOnClosed ==
  /\ [][ClosedIsFinal]_vars
  /\ [](Done => (closes = [task |-> 1, result |-> 1]))

\* taskChan is closed and drained while a worker still holds a result to
\* send, resultChan being open, after tasks of both loops were sent.
C20_Witness ==
  /\ taskClosed
  /\ closes = [task |-> 1, result |-> 0]
  /\ \E w \in Workers : wpc[w] = "send"
  /\ \E f \in Files : emitted[f].det >= 1
  /\ \E f \in Files : emitted[f].scan >= 1

\* ------------------------------------------------- the read loop on its own
\* The read loop of worker applied to what the successive f.Read(buf[:])
\* calls on an *os.File return: up to MaxReads - 1 reads of 1 .. BufSize
\* bytes without error, then a read of no bytes with io.EOF, the end of the
\* file, or with another error, a failed read.
MaxReads == 6
ByteValues == {1, 2}
Data == UNION {[1 .. n -> ByteValues] : n \in 1 .. BufSize}
RECURSIVE Prefixes(_)
Prefixes(n) ==
  IF n = 0 THEN {<<>>}
  ELSE LET shorter == Prefixes(n - 1)
       IN  shorter \cup {Append(s, [data |-> d, err |-> "nil"]) :
                           s \in {x \in shorter : Len(x) = n - 1}, d \in Data}
ReadScripts ==
  {Append(s, [data |-> <<>>, err |-> e]) :
     s \in Prefixes(MaxReads - 1), e \in {"EOF", "EIO"}}

\* No run of the pipeline: its variables rest.
PipelineOff ==
  /\ disk = DiskOf([disk |-> Absent], [disk |-> Absent], [disk |-> Absent])
  /\ input = EmptyMap /\ hashes = EmptyMap
  /\ inputAddnet = NilAddnet /\ hashesAddnet = NilAddnet
  /\ run = 1 /\ firstOutput = NoOutput /\ output = NoOutput
  /\ maxHashers = 1
  /\ mpc = "off" /\ iter = {} /\ pending = <<>> /\ knownFiles = {} /\ walk = 1
  /\ taskChan = <<>> /\ taskClosed = FALSE
  /\ resultChan = <<>> /\ resultClosed = FALSE
  /\ wpc = [w \in Workers |-> "off"] /\ wres = [w \in Workers |-> <<>>]
  /\ cpc = "off" /\ centry = <<>>
  /\ emitted = NoTasks /\ taken = NoneTaken /\ closes = NoCloses
  /\ deleted = {} /\ merged = {} /\ nSent = 0 /\ nMerged = 0 /\ raced = FALSE

ReadInit ==
  /\ PipelineOff
  /\ rscript \in ReadScripts
  /\ rpc = "open"
  /\ rres = [err |-> FALSE, sum |-> <<>>]

\* "n := 1; for n > 0 { ... }; hash := h.Sum(nil)" on an opened file.
ReadFile ==
  /\ rpc = "open"
  /\ rres' = ReadLoop(rscript, 1, <<>>)
  /\ rpc' = "returned"
  /\ UNCHANGED <<disk, input, maxHashers, hashes, mpc, iter, pending,
                 knownFiles, walk, taskChan, taskClosed, resultChan,
                 resultClosed, wpc, wres, cpc, centry, output, emitted,
                 deleted, merged, nSent, nMerged, raced, taken, closes,
                 hashesAddnet, inputAddnet, run, firstOutput, rscript>>

ReadSpec == ReadInit /\ [][ReadFile]_vars

\* --------------------------------------------------------------------- C13
\* All the bytes the reads returned, in order.
RECURSIVE AllBytes(_)
AllBytes(reads) ==
  IF reads = <<>> THEN <<>> ELSE Head(reads).data \o AllBytes(Tail(reads))
LastRead == rscript[Len(rscript)]
Returned == rpc = "returned"

C14_ReadErrorReported ==
  (Returned /\ LastRead.err = "EIO") => rres.err

\* ------------------------------------------------------------ a second run
\* Mutant of UnmarshalJSON: the decimals are dropped.
UnmarshalWhole(m) == m[1] * TicksPerSecond
\* json decoding of an MTime: the time nearest to the decimal number.
UnmarshalJSON(m) ==
  m[1] * TicksPerSecond
    + (2 * m[2] * TicksPerSecond + 10000000) \div (2 * 10000000)
DecodeEntry(o) ==
  [mtime |-> UnmarshalJSON(o.mtime), sha256 |-> o.sha256, path |-> <<>>]
\* json.NewDecoder(inf).Decode(&result): "hashes" into result.Hashes, and
\* "hashes-addnet", when the file has it, into result.HashesAddnet.
DecodeCache(h) == [k \in DOMAIN h |-> DecodeEntry(h[k])]
DecodeAddnet(a) ==
  IF a.present THEN [nil |-> FALSE, entries |-> DecodeCache(a.entries)]
  ELSE NilAddnet

\* The inputs of the runs that are run twice.
RerunA ==
  {[cache |-> None, disk |-> OnDisk("ok", T0 + 1, "none")],
   [cache |-> None, disk |-> OnDisk("noopen", T0, "none")],
   [cache |-> None, disk |-> OnDisk("ok", T0, "eio0")],
   [cache |-> <<Prev(T0)>>, disk |-> OnDisk("ok", Later, "none")],
   [cache |-> <<Prev(T0 + 1)>>, disk |-> OnDisk("ok", T0 + 1, "none")],
   [cache |-> <<Prev(T0)>>, disk |-> Absent],
   [cache |-> <<Prev(T0)>>, disk |-> OnDisk("dangling", Later, "none")],
   [cache |-> <<Prev(T0)>>, disk |-> OnDisk("noopen", Later, "none")]}
RerunB ==
  {[cache |-> None, disk |-> OnDisk("ok", T0, "none")],
   [cache |-> <<Prev(T0)>>, disk |-> OnDisk("ok", Later, "none")]}
RerunC == {[cache |-> <<Prev(T0)>>, disk |-> OnDisk("ok", T0, "none")]}

RerunInit ==
  InitWith(RerunA, RerunB, RerunC, {None, <<Prev(Earlier)>>},
           {NilAddnet, EmptyAddnet, OneAddnet})

\* The program is started again on the same directory, the cache the first
\* run wrote being its input.
Rerun ==
  /\ mpc = "done"
  /\ run = 1
  /\ run' = 2
  /\ firstOutput' = output
  /\ input' = DecodeCache(output.hashes)
  /\ hashes' = input'
  /\ inputAddnet' = DecodeAddnet(output.addnet)
  /\ hashesAddnet' = inputAddnet'
  /\ mpc' = "detect"
  /\ iter' = DOMAIN input'
  /\ pending' = <<>>
  /\ knownFiles' = {}
  /\ walk' = 1
  /\ taskChan' = <<>> /\ taskClosed' = FALSE
  /\ resultChan' = <<>> /\ resultClosed' = FALSE
  /\ wpc' = [w \in Workers |-> "recv"]
  /\ wres' = [w \in Workers |-> <<>>]
  /\ cpc' = "recv" /\ centry' = <<>>
  /\ output' = NoOutput
  /\ emitted' = NoTasks /\ taken' = NoneTaken /\ closes' = NoCloses
  /\ deleted' = {} /\ merged' = {}
  /\ nSent' = 0 /\ nMerged' = 0
  /\ raced' = FALSE
  /\ UNCHANGED <<disk, maxHashers, rscript, rpc, rres>>

RerunSpec == RerunInit /\ [][Next \/ Rerun]_vars

\* --------------------------------------------------------------------- C11
\* C11 (as claimed): a second run on the unchanged directory, its input the
\* cache the first run wrote, sends no task, deletes no key and writes a
\* cache equal to its input.
C11_SecondRunIdle ==
  run = 2
  => /\ \A f \in Files : NoTask(f)
     /\ deleted = {}
     /\ Done => output = firstOutput

\* The worker returns an error for the file: Info or os.Open fails.
WorkerFails(f) == disk[f].kind \in {"noopen", "dangling", "nosearch"}

\* C11 (amended): the second run deletes no key and writes a cache equal to
\* its input; it sends no task for a file that the worker can hash and that
\* no key other than "checkpoint/" + its relative path resolves to.
C11_SecondRunSameCache ==
  run = 2
  => /\ \A f \in Files :
          (~WorkerFails(f) /\ KeysFor(f) \subseteq {NamespacedKey(f)})
          => NoTask(f)
     /\ deleted = {}
     /\ Done => output = firstOutput

\* A second run that ended with the cache of the first: FileB, stale in the
\* first run and rehashed then, got no task, while FileA, which cannot be
\* opened, was sent by the scan again.
C11_Witness ==
  /\ run = 2
  /\ Done
  /\ output = firstOutput
  /\ disk[FileB].mtime = Later
  /\ NamespacedKey(FileB) \in DOMAIN output.hashes
  /\ output.hashes[NamespacedKey(FileB)] = FreshEncoded(FileB)
  /\ NoTask(FileB)
  /\ disk[FileA].kind = "noopen"
  /\ emitted[FileA].scan = 1

\* --------------------------------------------------------------------- C12
\* C12: at every step of a run result.HashesAddnet is what the decode of the
\* input made it; the encoded cache has "hashes-addnet" only when that is a
\* map with entries, and then with those entries: it has none when the input
\* had none.
C12_AddnetPassthrough ==
  /\ hashesAddnet = inputAddnet
  /\ Done
     => output.addnet =
          (IF inputAddnet.nil \/ DOMAIN inputAddnet.entries = {}
           THEN [present |-> FALSE, entries |-> EmptyMap]
           ELSE [present |-> TRUE,
                 entries |-> [k \in DOMAIN inputAddnet.entries |->
                                EncodeEntry(inputAddnet.entries[k])]])

\* A run on an input without "hashes-addnet" that deleted a key, sent tasks
\* and merged results ended with a cache without "hashes-addnet".
C12_Witness ==
  /\ Done
  /\ inputAddnet = NilAddnet
  /\ hashesAddnet = NilAddnet
  /\ ~output.addnet.present
  /\ deleted # {}
  /\ merged # {}
  /\ \E f \in Files : emitted[f].det >= 1

==============================================================================
